---------------------------- MODULE Spec2Model ----------------------------
(***************************************************************************)
(* Model of package mlabtest (src/mlabtest.go): the MLab process handle    *)
(* (New / Start / Close / Wait / IsClosed), the exit-monitor goroutine     *)
(* started by doStart, the stdin-copy goroutine that exec.Cmd runs for a   *)
(* non-file Stdin, the blockingReader used as stdin, and the address       *)
(* resolution of GetAddressPort / NeedForwarding / NetConfig.IP.           *)
(*                                                                         *)
(* The handle is used by one caller that issues Start and Close one after  *)
(* the other; the exit monitor, the stdin copier, the spawned process,     *)
(* the readiness timer and the Wait / IsClosed callers run concurrently    *)
(* with it.                                                                *)
(***************************************************************************)
EXTENDS Integers, Sequences, FiniteSets, TLC

\* ------------------------------------------------------------------ bounds
MaxStarts == 2      \* Start calls issued on the handle
MaxCloses == 2      \* Close calls issued on the handle
NumWaiters == 2     \* concurrent Wait callers
MaxIdLen == 2       \* longest content the process writes to the id file
MaxOut == 2         \* bytes the process writes to its stdout

NumClosers == 2     \* concurrent callers of blockingReader.Close on one gate
NumReaders == 2     \* concurrent callers of blockingReader.Read on one gate
MaxGateCalls == 2   \* calls each of them issues one after the other
MaxBytes == 4       \* bytes the client of a line logger writes in all
MaxScanTokenSize == 3   \* bufio.MaxScanTokenSize (64 * 1024), scaled down
NumResolvers == 2   \* goroutines calling m.NetConfig() on one handle
MaxNcCalls == 2     \* calls each of them issues one after the other

Waiters == 1..NumWaiters
Closers == 1..NumClosers
Readers == 1..NumReaders
Resolvers == 1..NumResolvers
Gates == 1..MaxStarts          \* one blockingReader can be made per Start

\* ----------------------------------------------------------- plain values
Chars == {"a", "\n"}                       \* what the process writes
SpaceChars == {" ", "\t", "\n", "\r"}       \* white space to bytes.TrimSpace
Strings(n) == UNION {[1..k -> Chars] : k \in 0..n}
Absent == <<"absent">>         \* the id file does not exist (no content is this)
StdinKinds == {"nil", "file", "reader"}

\* bytes.TrimSpace: drop leading and trailing white space
RECURSIVE TrimLeft(_)
TrimLeft(s) ==
    IF s = <<>> THEN s
    ELSE IF Head(s) \in SpaceChars THEN TrimLeft(Tail(s)) ELSE s

RECURSIVE TrimRight(_)
TrimRight(s) ==
    IF s = <<>> THEN s
    ELSE IF s[Len(s)] \in SpaceChars THEN TrimRight(SubSeq(s, 1, Len(s) - 1))
    ELSE s

\* (mutant) the content is taken as it is
TrimSpace_Untrimmed(s) == s

TrimSpace(s) == TrimRight(TrimLeft(s))

VARIABLES
    stdinKind,     \* m.Stdin as set before Start: nil, an *os.File, another reader
    stdinSrc,      \* what exec's stdin goroutine copies from: unset, file, reader, gate
    stdinGate,     \* the gate it copies from when stdinSrc is "gate" (0: none)
    cmdStdout,     \* m.cmd.Stdout is set (StdoutPipe attached a pipe)
    proc,          \* m.cmd.Process and the OS process: none, running, exited
    exitDesc,      \* how the process ended ("none" while it has not)
    processState,  \* m.cmd.ProcessState.String() ("nil" until cmd.Wait reaped)
    outOpen,       \* the process still holds its stdout open
    closechan,     \* m.closechan: "open" or "closed"
    chanCloses,    \* number of close(m.closechan) executed
    toBeClosed,    \* m.toBeClosed: sequence of gate numbers
    brOnce,        \* blockingReader.once has run, per gate
    brClosed,      \* number of close(b.c) executed, per gate
    idfile,        \* content of the side-channel file, or Absent
    idWritten,     \* the process has written its identifier
    id,            \* m.id
    pc,            \* position of the caller inside Start / Close
    startResult,   \* what the last Start returned
    bound,         \* m.t is not nil: the handle is bound to a test
    fatal,         \* the operation that ended the test by m.t.Fatal ("none": none did)
    outWritten,    \* bytes written to the process's stdout so far
    outPipe,       \* bytes of them still in the pipe, not yet read by io.Copy
    outDelivered,  \* bytes of them that io.Copy has written to the Stdout sink
    starts,        \* Start calls issued
    closes,        \* Close calls issued
    closeReturns,  \* Close calls that returned (nil)
    killLog,       \* one record per m.cmd.Process.Kill() call
    monitor,       \* exit-monitor goroutine: none, procwait, copywait, done
    stdinCopy,     \* exec's stdin copy goroutine: none, running, done
    timer,         \* readiness timer: off, armed, fired
    exitedBeforeTimer, \* the process exited during Start, the timer not yet fired
    waitpc,        \* per Wait caller: idle, blocked, returned
    lastIsClosed,  \* result of the last observer IsClosed call ("none" at first)
    mlabHost,      \* os.Getenv("MLAB_HOST"), a sequence of characters
    inspectOut,    \* what "mlab inspect" prints for this lab
    inspectCalls,  \* number of "mlab inspect" runs
    netConfig,     \* m.netConfig: NilConfig or the cached config
    addrReq,       \* internal port of the last GetAddressPort call (0: none yet)
    addrResult,    \* what the last GetAddressPort call returned
    ncReturn,      \* what the last m.NetConfig() call returned
    ipReturn,      \* the last conf.IP() call: its receiver and what it returned
    facadeIP,      \* what the last DockerLab.IP() call returned
    gateC,         \* blockingReader.c of a gate used by itself: "open" or "closed"
    gateCloses,    \* number of close(b.c) executed on it
    gateOnce,      \* blockingReader.once has completed
    onceM,         \* the closer holding once's mutex (0: nobody)
    closePc,       \* per closer: position inside blockingReader.Close
    closeCount,    \* per closer: Close calls issued
    closeRet,      \* per closer: what its last Close returned
    readPc,        \* per reader: position inside blockingReader.Read
    readCount,     \* per reader: Read calls issued
    readRet,       \* per reader: what its last Read returned
    chunks,        \* line logger: the Write calls its client has still to make
    written,       \* the bytes of all Write calls made so far, in order
    pipeData,      \* io.Pipe: the rest of the Write in progress, not yet read
    writerPc,      \* the client: idle, writing (inside pw.Write), closed
    writeErr,      \* a Write call returned io.ErrClosedPipe
    scanBuf,       \* bufio.Scanner: bytes read and not yet consumed
    scanErr,       \* bufio.Scanner: "none", "EOF" or "tooLong"
    scanToken,     \* scanner.Text()
    calls,         \* the arguments of the calls of f so far
    loggerPc,      \* the goroutine of NewLineLogger: scan, read, callback, closing, done
    prClosed,      \* the pipe's read end is closed
    pwClosed,      \* the pipe's write end is closed
    ncPc,          \* per goroutine calling NetConfig: idle, inspect, store
    ncLocal,       \* per goroutine: nc, err of its getNetConfig call
    ncGot,         \* per goroutine: what its last NetConfig call returned
    ncCalls        \* per goroutine: NetConfig calls issued

lifeVars == <<stdinKind, stdinSrc, stdinGate, cmdStdout, proc, exitDesc, processState,
              outOpen, closechan, chanCloses, toBeClosed, brOnce, brClosed,
              idfile, idWritten, id, pc, startResult, bound, fatal, outWritten, outPipe,
              outDelivered, starts, closes,
              closeReturns, killLog, monitor, stdinCopy, timer,
              exitedBeforeTimer, waitpc, lastIsClosed>>

addrVars == <<mlabHost, inspectOut, inspectCalls, netConfig, addrReq, addrResult,
              ncReturn, ipReturn, facadeIP>>

gateUnitVars == <<gateC, gateCloses, gateOnce, onceM, closePc, closeCount, closeRet,
                  readPc, readCount, readRet>>

\* what the lifecycle actions leave alone / what the resolver calls leave alone
lineVars == <<chunks, written, pipeData, writerPc, writeErr, scanBuf, scanErr, scanToken,
              calls, loggerPc, prClosed, pwClosed>>

\* what the lifecycle actions leave alone / what the resolver calls leave alone
outVars == <<outWritten, outPipe, outDelivered>>
raceVars == <<ncPc, ncLocal, ncGot, ncCalls>>
otherVars == <<addrVars, gateUnitVars, lineVars, raceVars, bound, outVars>>
notAddrVars == <<lifeVars, gateUnitVars, lineVars, raceVars>>

vars == <<lifeVars, addrVars, gateUnitVars, lineVars, raceVars>>

\* New: temp file created (empty), cmd built, closechan made, nothing spawned.
InitLife ==
    /\ stdinKind \in StdinKinds
    /\ stdinSrc = "unset"
    /\ stdinGate = 0
    /\ cmdStdout = FALSE
    /\ proc = "none"
    /\ exitDesc = "none"
    /\ processState = "nil"
    /\ outOpen = FALSE
    /\ closechan = "open"
    /\ chanCloses = 0
    /\ toBeClosed = <<>>
    /\ brOnce = [g \in Gates |-> FALSE]
    /\ brClosed = [g \in Gates |-> 0]
    /\ idfile = <<>>
    /\ idWritten = FALSE
    /\ id = <<>>
    /\ pc = "idle"
    /\ startResult = "none"
    /\ fatal = "none"
    /\ outWritten = 0
    /\ outPipe = 0
    /\ outDelivered = 0
    /\ starts = 0
    /\ closes = 0
    /\ closeReturns = 0
    /\ killLog = <<>>
    /\ monitor = "none"
    /\ stdinCopy = "none"
    /\ timer = "off"
    /\ exitedBeforeTimer = FALSE
    /\ waitpc = [w \in Waiters |-> "idle"]
    /\ lastIsClosed = "none"

\* ------------------------------------------------- network configuration
MaxIfcs == 2        \* interface records in the inspect output
MaxPorts == 1       \* port records in the inspect output
MaxInspects == 2    \* "mlab inspect" runs

NoIP == <<>>                          \* a nil net.IP
loopbackAddress == <<127, 0, 0, 1>>
IfNames == {"eth0", "eth1"}
AddrLits == {<<10, 0, 0, 2>>, <<10, 0, 0, 3>>, <<10, 0, 0, 256>>}
InternalPorts == {1000, 5432}
ExternalPorts == {55000, 55001}
AskedPorts == InternalPorts \cup {80}
UnixPrefix == <<"u", "n", "i", "x", ":">>
Hosts == { <<>>,
           <<"u", "n", "i", "x", ":">>,
           <<"u", "n", "i", "x", ":", "/", "s">>,
           <<"u", "n", "i", "x">>,
           <<"t", "c", "p", ":", "/", "/", "h">>,
           <<"x", "u", "n", "i", "x", ":">> }

NilConfig == [nil |-> TRUE]           \* a nil *NetConfig
NoResult == [called |-> FALSE]

SeqsUpTo(S, n) == UNION {[1..k -> S] : k \in 0..n}
IfcRecords == [address : AddrLits, ifname : IfNames]
PortRecords == [internal : InternalPorts, external : ExternalPorts]

\* The combined output of the inspect command: the command failed, the first
\* JSON document is malformed, the second is, or both decode.
InspectOutputs ==
    {[kind |-> k, ifcs |-> <<>>, ports |-> <<>>] : k \in {"cmdErr", "badIfcs"}}
    \cup {[kind |-> "badPorts", ifcs |-> i, ports |-> <<>>] :
              i \in SeqsUpTo(IfcRecords, MaxIfcs)}
    \cup {[kind |-> "ok", ifcs |-> i, ports |-> q] :
              i \in SeqsUpTo(IfcRecords, MaxIfcs), q \in SeqsUpTo(PortRecords, MaxPorts)}

\* strings.HasPrefix
HasPrefix(s, prefix) ==
    /\ Len(s) >= Len(prefix)
    /\ SubSeq(s, 1, Len(prefix)) = prefix

\* net.ParseIP on a dotted quad: nil unless four octets in 0..255
ParseIP(lit) ==
    IF Len(lit) = 4 /\ \A i \in 1..4 : lit[i] \in 0..255 THEN lit ELSE NoIP

InitAddr ==
    /\ mlabHost \in Hosts
    /\ inspectOut \in InspectOutputs
    /\ inspectCalls = 0
    /\ netConfig = NilConfig
    /\ addrReq = 0
    /\ addrResult = NoResult
    /\ ncReturn = NoResult
    /\ ipReturn = NoResult
    /\ facadeIP = NoResult

\* The resolver never called.
AddrUnqueried ==
    /\ mlabHost = <<>>
    /\ inspectOut = [kind |-> "cmdErr", ifcs |-> <<>>, ports |-> <<>>]
    /\ inspectCalls = 0
    /\ netConfig = NilConfig
    /\ addrReq = 0
    /\ addrResult = NoResult
    /\ ncReturn = NoResult
    /\ ipReturn = NoResult
    /\ facadeIP = NoResult

\* No goroutine is inside NetConfig.
NoResolvers ==
    /\ ncPc = [k \in Resolvers |-> "idle"]
    /\ ncLocal = [k \in Resolvers |-> [conf |-> NilConfig, err |-> "none"]]
    /\ ncGot = [k \in Resolvers |-> NoResult]
    /\ ncCalls = [k \in Resolvers |-> 0]

\* newBlockingReader, lines 326-328: the channel made, once untouched; nobody
\* has called Read or Close.
NewBlockingReader ==
    /\ gateC = "open"
    /\ gateCloses = 0
    /\ gateOnce = FALSE
    /\ onceM = 0
    /\ closePc = [c \in Closers |-> "idle"]
    /\ closeCount = [c \in Closers |-> 0]
    /\ closeRet = [c \in Closers |-> "none"]
    /\ readPc = [r \in Readers |-> "idle"]
    /\ readCount = [r \in Readers |-> 0]
    /\ readRet = [r \in Readers |-> NoResult]

\* NewLineLogger, lines 355-368, given a client that will make the Write
\* calls todo: the pipe is made and the goroutine is at its first Scan.
NewLineLogger(todo) ==
    /\ chunks = todo
    /\ written = <<>>
    /\ pipeData = <<>>
    /\ writerPc = "idle"
    /\ writeErr = FALSE
    /\ scanBuf = <<>>
    /\ scanErr = "none"
    /\ scanToken = <<>>
    /\ calls = <<>>
    /\ loggerPc = "scan"
    /\ prClosed = FALSE
    /\ pwClosed = FALSE

\* The handle alone: one lab made by New(nil, ...), its network configuration
\* left unqueried.
Init ==
    /\ InitLife
    /\ bound = FALSE
    /\ AddrUnqueried
    /\ NoResolvers
    /\ NewBlockingReader
    /\ NewLineLogger(<<>>)

\* ------------------------------------------------------------- helpers

\* (mutant) the two arms of the select swapped
IsClosed_Inverted == closechan = "open"

\* MLab.IsClosed: non-blocking receive on closechan
IsClosed == closechan = "closed"

\* doStart's stdin wiring: the caller's Stdin, or a fresh blockingReader that is
\* registered in toBeClosed.  The gate made by the n-th Start is gate n.
NewGate == starts + 1
WiredStdin == IF stdinKind # "nil" THEN stdinKind ELSE "gate"
Registered == IF stdinKind # "nil" THEN toBeClosed ELSE Append(toBeClosed, NewGate)

\* blockingReader.Close: once.Do(func() { close(b.c) }); the new number of
\* close(b.c) executed, given whether once has already run.
BrCloseCount(onceDone, n) == IF onceDone THEN n ELSE n + 1

GateSet(seq) == {seq[i] : i \in 1..Len(seq)}

\* (mutant) Start hands every error back
FatalOnFailure_Never(r) == "none"

\* Start, lines 150-153: doStart's error makes a bound handle call m.t.Fatal.
FatalOnFailure(r) == IF r # "ok" /\ bound THEN "Start" ELSE fatal

\* The test goes on: no Fatal has ended it (after one, only the deferred
\* calls such as Close are run).
TestRuns == fatal = "none"

\* One return of Start with result r and nothing else touched by the caller.
StartReturns(r) ==
    /\ startResult' = r
    /\ fatal' = FatalOnFailure(r)
    /\ pc' = "idle"

procVars == <<proc, exitDesc, outOpen, exitedBeforeTimer>>
fileVars == <<idfile, idWritten>>
gateVars == <<brOnce, brClosed>>
chanVars == <<closechan, chanCloses>>
closeVars == <<closes, closeReturns, killLog>>
obsVars == <<waitpc, lastIsClosed>>

\* ---------------------------------------------------------------- Start

\* doStart, lines 158-180: stdin wired, then cmd.StdoutPipe fails: because
\* cmd.Stdout is already set by an earlier StdoutPipe, or because os.Pipe
\* fails.  closechan is not touched.
StartPipeFail ==
    /\ pc = "idle"
    /\ TestRuns
    /\ starts < MaxStarts
    /\ starts' = starts + 1
    /\ toBeClosed' = Registered
    /\ StartReturns("pipeErr")
    /\ UNCHANGED <<stdinKind, stdinSrc, stdinGate, cmdStdout, processState, id, monitor,
                   stdinCopy, timer>>
    /\ UNCHANGED <<procVars, fileVars, gateVars, chanVars, closeVars, obsVars, otherVars>>

\* doStart, lines 158-185: the pipe is attached and cmd.Start fails;
\* closechan is closed (closing a closed channel panics).
StartSpawnFail ==
    /\ pc = "idle"
    /\ TestRuns
    /\ starts < MaxStarts
    /\ ~cmdStdout
    /\ starts' = starts + 1
    /\ toBeClosed' = Registered
    /\ cmdStdout' = TRUE
    /\ chanCloses' = chanCloses + 1
    /\ closechan' = "closed"
    /\ startResult' = "spawnErr"
    /\ fatal' = IF closechan = "closed" THEN fatal ELSE FatalOnFailure("spawnErr")
    /\ pc' = IF closechan = "closed" THEN "startPanicked" ELSE "idle"
    /\ UNCHANGED <<stdinKind, stdinSrc, stdinGate, processState, id, monitor, stdinCopy,
                   timer>>
    /\ UNCHANGED <<procVars, fileVars, gateVars, closeVars, obsVars, otherVars>>

\* doStart, lines 158-190: the pipe is attached, the process is spawned, exec
\* starts its stdin copy goroutine unless Stdin is an *os.File, and the exit
\* monitor goroutine is started.  The caller goes on to io.Copy.
StartSpawned ==
    /\ pc = "idle"
    /\ TestRuns
    /\ starts < MaxStarts
    /\ ~cmdStdout
    /\ starts' = starts + 1
    /\ toBeClosed' = Registered
    /\ cmdStdout' = TRUE
    /\ stdinSrc' = WiredStdin
    /\ stdinGate' = IF WiredStdin = "gate" THEN NewGate ELSE 0
    /\ stdinCopy' = IF WiredStdin = "file" THEN "none" ELSE "running"
    /\ proc' = "running"
    /\ outOpen' = TRUE
    /\ monitor' = "procwait"
    /\ pc' = "copy"
    /\ UNCHANGED <<stdinKind, exitDesc, exitedBeforeTimer, processState, id,
                   startResult, fatal, timer>>
    /\ UNCHANGED <<fileVars, gateVars, chanVars, closeVars, obsVars, otherVars>>

\* (mutant) end of stream is taken from the writer's side alone
CopySeesEOF_DataLeft == ~outOpen

\* io.Copy(out, pipe), line 192: the read of the pipe returns io.EOF when
\* every write end is closed and the pipe is empty.
CopySeesEOF == ~outOpen /\ outPipe = 0

\* doStart, line 192: io.Copy returns nil once the process's stdout reached
\* end of stream; line 196-200: the select is entered and the timer made.
StartCopyDone ==
    /\ pc = "copy"
    /\ CopySeesEOF
    /\ pc' = "select"
    /\ timer' = "armed"
    /\ UNCHANGED <<stdinKind, stdinSrc, stdinGate, cmdStdout, processState, toBeClosed, id,
                   startResult, fatal, starts, monitor, stdinCopy>>
    /\ UNCHANGED <<procVars, fileVars, gateVars, chanVars, closeVars, obsVars, otherVars>>

\* doStart, lines 192-194: io.Copy returns an error (the sink's Write failed,
\* or the read end was closed under it).
StartCopyFail ==
    /\ pc = "copy"
    /\ StartReturns("copyErr")
    /\ UNCHANGED <<stdinKind, stdinSrc, stdinGate, cmdStdout, processState, toBeClosed, id,
                   starts, monitor, stdinCopy, timer>>
    /\ UNCHANGED <<procVars, fileVars, gateVars, chanVars, closeVars, obsVars, otherVars>>

\* doStart, lines 196-198: the select receives from closechan.
StartSelectExit ==
    /\ pc = "select"
    /\ closechan = "closed"
    /\ StartReturns("exited")
    /\ UNCHANGED <<stdinKind, stdinSrc, stdinGate, cmdStdout, processState, toBeClosed, id,
                   starts, monitor, stdinCopy, timer>>
    /\ UNCHANGED <<procVars, fileVars, gateVars, chanVars, closeVars, obsVars, otherVars>>

\* doStart, lines 200-209: the select receives from the timer, the id file is
\* read and m.id is set to its trimmed content.
StartSelectTimer ==
    /\ pc = "select"
    /\ timer = "fired"
    /\ IF idfile = Absent
       THEN /\ StartReturns("readErr")
            /\ id' = id
       ELSE /\ StartReturns("ok")
            /\ id' = TrimSpace(idfile)
    /\ UNCHANGED <<stdinKind, stdinSrc, stdinGate, cmdStdout, processState, toBeClosed,
                   starts, monitor, stdinCopy, timer>>
    /\ UNCHANGED <<procVars, fileVars, gateVars, chanVars, closeVars, obsVars, otherVars>>

\* time.NewTimer(50 * time.Millisecond) fires.
TimerFire ==
    /\ timer = "armed"
    /\ timer' = "fired"
    /\ UNCHANGED <<stdinKind, stdinSrc, stdinGate, cmdStdout, processState, toBeClosed, id,
                   pc, startResult, fatal, starts, monitor, stdinCopy>>
    /\ UNCHANGED <<procVars, fileVars, gateVars, chanVars, closeVars, obsVars, otherVars>>

\* -------------------------------------------------- the spawned process

\* The process closes its stdout without exiting (it detaches).
ProcCloseOut ==
    /\ proc = "running"
    /\ outOpen
    /\ outOpen' = FALSE
    /\ UNCHANGED <<stdinKind, stdinSrc, stdinGate, cmdStdout, processState, toBeClosed, id,
                   pc, startResult, fatal, starts, monitor, stdinCopy, timer, proc,
                   exitDesc, exitedBeforeTimer>>
    /\ UNCHANGED <<fileVars, gateVars, chanVars, closeVars, obsVars, otherVars>>

\* The process unlinks the id file it was handed (before replacing it).
ProcRemoveId ==
    /\ proc = "running"
    /\ ~idWritten
    /\ idfile # Absent
    /\ idfile' = Absent
    /\ UNCHANGED <<stdinKind, stdinSrc, stdinGate, cmdStdout, processState, toBeClosed, id,
                   pc, startResult, fatal, starts, monitor, stdinCopy, timer,
                   idWritten>>
    /\ UNCHANGED <<procVars, gateVars, chanVars, closeVars, obsVars, otherVars>>

\* The process writes the container id to the id file (--id <idfile>).
ProcWriteId ==
    /\ proc = "running"
    /\ ~idWritten
    /\ \E c \in Strings(MaxIdLen) : idfile' = c
    /\ idWritten' = TRUE
    /\ UNCHANGED <<stdinKind, stdinSrc, stdinGate, cmdStdout, processState, toBeClosed, id,
                   pc, startResult, fatal, starts, monitor, stdinCopy, timer>>
    /\ UNCHANGED <<procVars, gateVars, chanVars, closeVars, obsVars, otherVars>>

\* The process exits by itself; its stdout is closed with it.
ProcExit ==
    /\ proc = "running"
    /\ proc' = "exited"
    /\ exitDesc' = "exit status 1"
    /\ outOpen' = FALSE
    /\ exitedBeforeTimer' = (pc \in {"copy", "select"} /\ timer # "fired")
    /\ UNCHANGED <<stdinKind, stdinSrc, stdinGate, cmdStdout, processState, toBeClosed, id,
                   pc, startResult, fatal, starts, monitor, stdinCopy, timer>>
    /\ UNCHANGED <<fileVars, gateVars, chanVars, closeVars, obsVars, otherVars>>

\* ------------------------------------------- goroutines started by Start

\* exec's stdin goroutine, io.Copy(pw, c.Stdin), ends: a caller's reader
\* reaches its end (or the write fails); a blockingReader returns EOF only
\* after its channel was closed (blockingReader.Read, lines 330-333).
StdinCopyEnd ==
    /\ stdinCopy = "running"
    /\ \/ stdinSrc = "reader"
       \/ stdinSrc = "gate" /\ brClosed[stdinGate] > 0
    /\ stdinCopy' = "done"
    /\ UNCHANGED <<stdinKind, stdinSrc, stdinGate, cmdStdout, processState, toBeClosed, id,
                   pc, startResult, fatal, starts, monitor, timer>>
    /\ UNCHANGED <<procVars, fileVars, gateVars, chanVars, closeVars, obsVars, otherVars>>

\* (mutant) the monitor does not wait for the process
ProcessWaitReturns_Early == proc # "none"

\* cmd.Wait, called at line 188: Process.Wait returns once the process ended.
ProcessWaitReturns == proc = "exited"

\* Exit monitor, line 188, first half of cmd.Wait: Process.Wait returns once
\* the process has ended and ProcessState is set.
MonitorReap ==
    /\ monitor = "procwait"
    /\ ProcessWaitReturns
    /\ processState' = exitDesc
    /\ monitor' = "copywait"
    /\ UNCHANGED <<stdinKind, stdinSrc, stdinGate, cmdStdout, toBeClosed, id, pc,
                   startResult, fatal, starts, stdinCopy, timer>>
    /\ UNCHANGED <<procVars, fileVars, gateVars, chanVars, closeVars, obsVars, otherVars>>

\* Exit monitor, lines 188-189: cmd.Wait returns once exec's copy goroutines
\* have ended, then closechan is closed.
MonitorClose ==
    /\ monitor = "copywait"
    /\ stdinCopy # "running"
    /\ monitor' = "done"
    /\ chanCloses' = chanCloses + 1
    /\ closechan' = "closed"
    /\ UNCHANGED <<stdinKind, stdinSrc, stdinGate, cmdStdout, processState, toBeClosed, id,
                   pc, startResult, fatal, starts, stdinCopy, timer>>
    /\ UNCHANGED <<procVars, fileVars, gateVars, closeVars, obsVars, otherVars>>

\* ---------------------------------------------------------------- Close

\* Close, lines 133-134: the IsClosed test.
CloseBegin ==
    /\ pc = "idle"
    /\ closes < MaxCloses
    /\ closes' = closes + 1
    /\ pc' = IF IsClosed THEN "closeRelease" ELSE "closeKill"
    /\ UNCHANGED <<stdinKind, stdinSrc, stdinGate, cmdStdout, processState, toBeClosed, id,
                   startResult, fatal, starts, monitor, stdinCopy, timer,
                   closeReturns, killLog>>
    /\ UNCHANGED <<procVars, fileVars, gateVars, chanVars, obsVars, otherVars>>

\* Close, line 137: m.cmd.Process.Kill().  cmd.Process is nil until cmd.Start
\* succeeded, and Kill on a nil *os.Process dereferences it: the call panics.
\* Kill on a process that already ended changes nothing; a killed process does
\* nothing further (it writes no id file after the SIGKILL).
CloseKill ==
    /\ pc = "closeKill"
    /\ IF proc = "none"
       THEN /\ pc' = "closePanicked"
            /\ UNCHANGED <<killLog, procVars>>
       ELSE /\ pc' = "closeRelease"
            /\ killLog' = Append(killLog, [close |-> closes, fired |-> IsClosed,
                                           procWas |-> proc])
            /\ proc' = "exited"
            /\ exitDesc' = IF proc = "running" THEN "signal: killed" ELSE exitDesc
            /\ outOpen' = FALSE
            /\ UNCHANGED exitedBeforeTimer
    /\ UNCHANGED <<stdinKind, stdinSrc, stdinGate, cmdStdout, processState, toBeClosed, id,
                   startResult, fatal, starts, monitor, stdinCopy, timer, closes,
                   closeReturns>>
    /\ UNCHANGED <<fileVars, gateVars, chanVars, obsVars, otherVars>>

\* (mutant) the removal left out
Remove_Skipped(f) == f

\* os.Remove(m.idfile), line 144: the file is gone afterwards, whether or not
\* it was there (the file is the handle's own temporary file; the error that
\* os.Remove returns for a missing file is dropped).
Remove(f) == Absent

\* Close, lines 140-145: Close of every registered closer, os.Remove of the
\* id file (its error is dropped), return nil.
CloseRelease ==
    /\ pc = "closeRelease"
    /\ brOnce' = [g \in Gates |-> brOnce[g] \/ g \in GateSet(toBeClosed)]
    /\ brClosed' = [g \in Gates |->
                      IF g \in GateSet(toBeClosed)
                      THEN BrCloseCount(brOnce[g], brClosed[g])
                      ELSE brClosed[g]]
    /\ idfile' = Remove(idfile)
    /\ closeReturns' = closeReturns + 1
    /\ pc' = "idle"
    /\ UNCHANGED <<stdinKind, stdinSrc, stdinGate, cmdStdout, processState, toBeClosed, id,
                   startResult, fatal, starts, monitor, stdinCopy, timer, closes,
                   killLog, idWritten>>
    /\ UNCHANGED <<procVars, chanVars, obsVars, otherVars>>

\* ------------------------------------------------------ Wait / IsClosed

\* Wait, line 213-214: a caller enters Wait and blocks on closechan.
WaitCall(w) ==
    /\ waitpc[w] = "idle"
    /\ waitpc' = [waitpc EXCEPT ![w] = "blocked"]
    /\ UNCHANGED <<stdinKind, stdinSrc, stdinGate, cmdStdout, processState, toBeClosed, id,
                   pc, startResult, fatal, starts, monitor, stdinCopy, timer,
                   lastIsClosed>>
    /\ UNCHANGED <<procVars, fileVars, gateVars, chanVars, closeVars, otherVars>>

\* Wait, line 214: the receive on closechan completes once it is closed.
WaitReturn(w) ==
    /\ waitpc[w] = "blocked"
    /\ closechan = "closed"
    /\ waitpc' = [waitpc EXCEPT ![w] = "returned"]
    /\ UNCHANGED <<stdinKind, stdinSrc, stdinGate, cmdStdout, processState, toBeClosed, id,
                   pc, startResult, fatal, starts, monitor, stdinCopy, timer,
                   lastIsClosed>>
    /\ UNCHANGED <<procVars, fileVars, gateVars, chanVars, closeVars, otherVars>>

\* IsClosed, lines 218-225, called by an observer that keeps the result.
ObserveIsClosed ==
    /\ lastIsClosed' = IF IsClosed THEN "true" ELSE "false"
    /\ lastIsClosed' # lastIsClosed
    /\ UNCHANGED <<stdinKind, stdinSrc, stdinGate, cmdStdout, processState, toBeClosed, id,
                   pc, startResult, fatal, starts, monitor, stdinCopy, timer, waitpc>>
    /\ UNCHANGED <<procVars, fileVars, gateVars, chanVars, closeVars, otherVars>>

Next ==
    \/ StartPipeFail
    \/ StartSpawnFail
    \/ StartSpawned
    \/ StartCopyDone
    \/ StartCopyFail
    \/ StartSelectExit
    \/ StartSelectTimer
    \/ TimerFire
    \/ ProcCloseOut
    \/ ProcRemoveId
    \/ ProcWriteId
    \/ ProcExit
    \/ StdinCopyEnd
    \/ MonitorReap
    \/ MonitorClose
    \/ CloseBegin
    \/ CloseKill
    \/ CloseRelease

\* The handle with its caller, the spawned process and the goroutines of Start.
Spec == Init /\ [][Next]_vars

\* -------------------------------------------------- the process's output

\* The process (or a child that inherited its stdout) writes a byte.
ProcWriteOut ==
    /\ proc = "running"
    /\ outOpen
    /\ outWritten < MaxOut
    /\ outWritten' = outWritten + 1
    /\ outPipe' = outPipe + 1
    /\ UNCHANGED <<stdinKind, stdinSrc, stdinGate, cmdStdout, processState, toBeClosed, id,
                   pc, startResult, fatal, starts, monitor, stdinCopy, timer, outDelivered>>
    /\ UNCHANGED <<procVars, fileVars, gateVars, chanVars, closeVars, obsVars, addrVars,
                   gateUnitVars, lineVars, raceVars, bound>>

\* io.Copy(out, pipe), line 192: what is in the pipe is read and written to
\* the sink.
StartCopyChunk ==
    /\ pc = "copy"
    /\ outPipe > 0
    /\ outPipe' = 0
    /\ outDelivered' = outDelivered + outPipe
    /\ UNCHANGED <<stdinKind, stdinSrc, stdinGate, cmdStdout, processState, toBeClosed, id,
                   pc, startResult, fatal, starts, monitor, stdinCopy, timer, outWritten>>
    /\ UNCHANGED <<procVars, fileVars, gateVars, chanVars, closeVars, obsVars, addrVars,
                   gateUnitVars, lineVars, raceVars, bound>>

NextOut ==
    \/ Next
    \/ ProcWriteOut
    \/ StartCopyChunk

\* The same with a process that writes to its stdout.
SpecOut == Init /\ [][NextOut]_vars

\* ------------------------------------------- network configuration calls

\* Index of the last interface record named n / last port record for p.
LastIfc(ifcs, n) ==
    CHOOSE i \in 1..Len(ifcs) :
        /\ ifcs[i].ifname = n
        /\ \A j \in (i + 1)..Len(ifcs) : ifcs[j].ifname # n

LastPort(ports, p) ==
    CHOOSE i \in 1..Len(ports) :
        /\ ports[i].internal = p
        /\ \A j \in (i + 1)..Len(ports) : ports[j].internal # p

\* getNetConfig, lines 258-265: interfaces[i.IFName] = ip, later records
\* overwriting earlier ones of the same name.
InterfaceMap(ifcs) ==
    [n \in {ifcs[i].ifname : i \in 1..Len(ifcs)} |->
        ParseIP(ifcs[LastIfc(ifcs, n)].address)]

\* getNetConfig, lines 276-279: ports[p.Internal] = p.External.
PortMap(ports) ==
    [p \in {ports[i].internal : i \in 1..Len(ports)} |->
        ports[LastPort(ports, p)].external]

\* (mutant) the interfaces parsed so far are returned with the error
getNetConfig_Partial(out) ==
    IF out.kind = "cmdErr" THEN [conf |-> NilConfig, err |-> "inspect failed"]
    ELSE IF out.kind = "badIfcs" THEN [conf |-> NilConfig, err |-> "json"]
    ELSE IF \E i \in 1..Len(out.ifcs) : ParseIP(out.ifcs[i].address) = NoIP
         THEN [conf |-> NilConfig, err |-> "error parsing address"]
    ELSE IF out.kind = "badPorts"
         THEN [conf |-> [Interfaces |-> InterfaceMap(out.ifcs), ExposedPorts |-> <<>>],
               err |-> "json"]
    ELSE [conf |-> [Interfaces |-> InterfaceMap(out.ifcs),
                    ExposedPorts |-> PortMap(out.ports)],
          err |-> "none"]

\* getNetConfig, lines 241-285: the error or the parsed configuration.
getNetConfig(out) ==
    IF out.kind = "cmdErr" THEN [conf |-> NilConfig, err |-> "inspect failed"]
    ELSE IF out.kind = "badIfcs" THEN [conf |-> NilConfig, err |-> "json"]
    ELSE IF \E i \in 1..Len(out.ifcs) : ParseIP(out.ifcs[i].address) = NoIP
         THEN [conf |-> NilConfig, err |-> "error parsing address"]
    ELSE IF out.kind = "badPorts" THEN [conf |-> NilConfig, err |-> "json"]
    ELSE [conf |-> [Interfaces |-> InterfaceMap(out.ifcs),
                    ExposedPorts |-> PortMap(out.ports)],
          err |-> "none"]

\* (mutant) the cache is not consulted
NetConfigOutcome_Uncached ==
    LET r == getNetConfig(inspectOut)
    IN  [conf |-> r.conf, err |-> r.err,
         cache |-> IF r.err = "none" THEN r.conf ELSE netConfig,
         inspected |-> 1]

\* MLab.NetConfig, lines 229-239: the cached config, or a fresh resolution
\* that is cached when it succeeds.  inspected: whether inspect was run.
NetConfigOutcome ==
    IF netConfig # NilConfig
    THEN [conf |-> netConfig, err |-> "none", cache |-> netConfig, inspected |-> 0]
    ELSE LET r == getNetConfig(inspectOut)
         IN  [conf |-> r.conf, err |-> r.err,
              cache |-> IF r.err = "none" THEN r.conf ELSE netConfig,
              inspected |-> 1]

\* (mutant) eth0 is not looked up first
IPChoices_AnyInterface(n) ==
    IF n = NilConfig THEN {NoIP}
    ELSE IF DOMAIN n.Interfaces = {} THEN {NoIP}
    ELSE {n.Interfaces[k] : k \in DOMAIN n.Interfaces}

\* NetConfig.IP, lines 59-75: what it can return.  Ranging over a Go map
\* visits the keys in an unspecified order, so without eth0 any interface's
\* address can come first.
IPChoices(n) ==
    IF n = NilConfig THEN {NoIP}
    ELSE IF DOMAIN n.Interfaces = {} THEN {NoIP}
    ELSE IF "eth0" \in DOMAIN n.Interfaces THEN {n.Interfaces["eth0"]}
    ELSE {n.Interfaces[k] : k \in DOMAIN n.Interfaces}

\* (mutant) the negation dropped
NeedForwarding_NotNegated == HasPrefix(mlabHost, UnixPrefix)

\* NeedForwarding, lines 310-312
NeedForwarding == ~HasPrefix(mlabHost, UnixPrefix)

\* (mutant) the forwarded port is not translated
AddressPort_Untranslated(conf, port, ip) ==
    IF ~NeedForwarding /\ ip # NoIP
    THEN [called |-> TRUE, ip |-> ip, port |-> port, err |-> "none", errPort |-> 0]
    ELSE IF port \in DOMAIN conf.ExposedPorts
    THEN [called |-> TRUE, ip |-> loopbackAddress, port |-> port,
          err |-> "none", errPort |-> 0]
    ELSE [called |-> TRUE, ip |-> NoIP, port |-> 0,
          err |-> "could not find port mapping", errPort |-> port]

\* GetAddressPort, lines 294-305, given the config and what conf.IP() gave.
AddressPort(conf, port, ip) ==
    IF ~NeedForwarding /\ ip # NoIP
    THEN [called |-> TRUE, ip |-> ip, port |-> port, err |-> "none", errPort |-> 0]
    ELSE IF port \in DOMAIN conf.ExposedPorts
    THEN [called |-> TRUE, ip |-> loopbackAddress, port |-> conf.ExposedPorts[port],
          err |-> "none", errPort |-> 0]
    ELSE [called |-> TRUE, ip |-> NoIP, port |-> 0,
          err |-> "could not find port mapping", errPort |-> port]

\* What a call of m.NetConfig() hands back to its caller.
Returned(r) == [called |-> TRUE, conf |-> r.conf, err |-> r.err]

\* A call of m.NetConfig() by itself.
NetConfigCall ==
    /\ netConfig # NilConfig \/ inspectCalls < MaxInspects
    /\ netConfig' = NetConfigOutcome.cache
    /\ inspectCalls' = inspectCalls + NetConfigOutcome.inspected
    /\ ncReturn' = Returned(NetConfigOutcome)
    /\ UNCHANGED <<mlabHost, inspectOut, addrReq, addrResult, ipReturn, facadeIP>>
    /\ UNCHANGED notAddrVars

\* conf, _ := m.NetConfig(); conf.IP(): the caller asks the returned pointer
\* for its address, a nil pointer when the resolution failed.
ConfIP ==
    /\ netConfig # NilConfig \/ inspectCalls < MaxInspects
    /\ LET r == NetConfigOutcome
       IN  /\ netConfig' = r.cache
           /\ inspectCalls' = inspectCalls + r.inspected
           /\ ncReturn' = Returned(r)
           /\ \E ip \in IPChoices(r.conf) :
                  ipReturn' = [called |-> TRUE, conf |-> r.conf, ip |-> ip]
    /\ UNCHANGED <<mlabHost, inspectOut, addrReq, addrResult, facadeIP>>
    /\ UNCHANGED notAddrVars

\* GetAddressPort, lines 288-306.
GetAddressPort ==
    /\ netConfig # NilConfig \/ inspectCalls < MaxInspects
    /\ \E port \in AskedPorts :
         LET r == NetConfigOutcome
         IN  /\ addrReq' = port
             /\ netConfig' = r.cache
             /\ inspectCalls' = inspectCalls + r.inspected
             /\ ncReturn' = Returned(r)
             /\ IF r.err # "none"
                THEN /\ addrResult' = [called |-> TRUE, ip |-> NoIP, port |-> 0,
                                       err |-> r.err, errPort |-> 0]
                     /\ ipReturn' = ipReturn
                ELSE \E ip \in IPChoices(r.conf) :
                        /\ addrResult' = AddressPort(r.conf, port, ip)
                        /\ ipReturn' = IF NeedForwarding THEN ipReturn
                                       ELSE [called |-> TRUE, conf |-> r.conf, ip |-> ip]
    /\ UNCHANGED <<mlabHost, inspectOut, facadeIP>>
    /\ UNCHANGED notAddrVars

\* DockerLab.IP, src/dockertest/dockerlab.go lines 80-89: the lab's NetConfig,
\* then conf.IP(), a nil address being turned into an error.
FacadeIP ==
    /\ netConfig # NilConfig \/ inspectCalls < MaxInspects
    /\ LET r == NetConfigOutcome
       IN  /\ netConfig' = r.cache
           /\ inspectCalls' = inspectCalls + r.inspected
           /\ ncReturn' = Returned(r)
           /\ IF r.err # "none"
              THEN /\ facadeIP' = [called |-> TRUE, ip |-> NoIP, err |-> r.err]
                   /\ ipReturn' = ipReturn
              ELSE \E ip \in IPChoices(r.conf) :
                      /\ ipReturn' = [called |-> TRUE, conf |-> r.conf, ip |-> ip]
                      /\ facadeIP' =
                            IF ip # NoIP
                            THEN [called |-> TRUE, ip |-> ip, err |-> "none"]
                            ELSE [called |-> TRUE, ip |-> NoIP,
                                  err |-> "no IP for docker container"]
    /\ UNCHANGED <<mlabHost, inspectOut, addrReq, addrResult>>
    /\ UNCHANGED notAddrVars

NextAddr ==
    \/ NetConfigCall
    \/ ConfIP
    \/ GetAddressPort
    \/ FacadeIP

\* The resolver on one handle: the environment and the lab's inspect output
\* are fixed; NetConfig, conf.IP, GetAddressPort and the facade's IP are
\* called one after the other in any order.
InitResolver ==
    /\ InitLife
    /\ stdinKind = "nil"
    /\ bound = FALSE
    /\ InitAddr
    /\ NoResolvers
    /\ NewBlockingReader
    /\ NewLineLogger(<<>>)

SpecAddr == InitResolver /\ [][NextAddr]_vars

NextObserved ==
    \/ Next
    \/ \E w \in Waiters : WaitCall(w)
    \/ \E w \in Waiters : WaitReturn(w)
    \/ ObserveIsClosed

\* The same with concurrent Wait and IsClosed callers.  The Go runtime wakes
\* every receiver blocked on a channel once it is closed.
FairSpec ==
    /\ Init
    /\ [][NextObserved]_vars
    /\ \A w \in Waiters : WF_vars(WaitReturn(w))

\* exec's stdin goroutine copying from a blockingReader ends.
GateCopyEnd == StdinCopyEnd /\ stdinSrc = "gate"

\* The handle shut down.  The Go scheduler runs every goroutine that can take
\* a step: a Close call in progress goes on, the exit monitor goes on once
\* what it waits for has happened, a read of a released blockingReader
\* returns, a receive on a closed channel completes.  A reader the caller
\* gave as Stdin ends when it ends, if ever.
FairSpecShutdown ==
    /\ Init
    /\ [][NextObserved]_vars
    /\ WF_vars(CloseKill)
    /\ WF_vars(CloseRelease)
    /\ WF_vars(MonitorReap)
    /\ WF_vars(MonitorClose)
    /\ WF_vars(GateCopyEnd)
    /\ \A w \in Waiters : WF_vars(WaitReturn(w))

\* ------------------------------------------------ the handle in a test

\* What the inspect command prints in these runs: it fails, or it reports
\* one interface and one mapped port.
TestInspectOutputs ==
    {[kind |-> "cmdErr", ifcs |-> <<>>, ports |-> <<>>],
     [kind |-> "ok",
      ifcs |-> <<[address |-> <<10, 0, 0, 2>>, ifname |-> "eth0"]>>,
      ports |-> <<[internal |-> 1000, external |-> 55000]>>]}

\* A handle made by New(tb, ...) with tb nil or not, given a reader as Stdin.
InitTest ==
    /\ InitLife
    /\ stdinKind = "reader"
    /\ bound \in BOOLEAN
    /\ InitAddr
    /\ mlabHost = <<>>
    /\ inspectOut \in TestInspectOutputs
    /\ NoResolvers
    /\ NewBlockingReader
    /\ NewLineLogger(<<>>)

\* The caller makes its calls one after the other, the resolver's among
\* them, for as long as no Fatal has ended the test.
NextTest ==
    \/ Next
    \/ (pc = "idle" /\ TestRuns /\ NextAddr)

\* The handle, bound to a test or not, with the whole of its interface in use.
SpecTest == InitTest /\ [][NextTest]_vars

\* ------------------------------- NetConfig called by several goroutines


restOfRace == <<lifeVars, gateUnitVars, lineVars>>

\* What the inspect command prints while these calls run: it fails, or it
\* reports the lab's interface with the address it has at that time.
RaceInspectOutputs ==
    {[kind |-> "cmdErr", ifcs |-> <<>>, ports |-> <<>>],
     [kind |-> "ok",
      ifcs |-> <<[address |-> <<10, 0, 0, 2>>, ifname |-> "eth0"]>>,
      ports |-> <<>>],
     [kind |-> "ok",
      ifcs |-> <<[address |-> <<10, 0, 0, 3>>, ifname |-> "eth0"]>>,
      ports |-> <<>>]}

\* getNetConfig, line 281: &NetConfig{...} is a new object at every call; obj
\* tells the objects apart (a nil pointer stays NilConfig).
Allocated(conf, n) ==
    IF conf = NilConfig THEN NilConfig
    ELSE [Interfaces |-> conf.Interfaces, ExposedPorts |-> conf.ExposedPorts, obj |-> n]

\* NetConfig, lines 235-237: m.netConfig = nc when err == nil, whatever
\* m.netConfig holds by then.
StoredConfig(cache, nc) == IF nc.err = "none" THEN nc.conf ELSE cache

\* Inspections that calls in progress have still to make.
InspectsAhead == Cardinality({k \in Resolvers : ncPc[k] = "inspect"})

\* NetConfig, lines 230-232: the test of m.netConfig; the cached pointer is
\* returned when there is one.
NcCheck(k) ==
    /\ ncPc[k] = "idle"
    /\ ncCalls[k] < MaxNcCalls
    /\ netConfig # NilConfig \/ inspectCalls + InspectsAhead < MaxInspects
    /\ ncCalls' = [ncCalls EXCEPT ![k] = @ + 1]
    /\ IF netConfig # NilConfig
       THEN /\ ncGot' = [ncGot EXCEPT ![k] = [called |-> TRUE, conf |-> netConfig,
                                              err |-> "none"]]
            /\ ncPc' = ncPc
       ELSE /\ ncGot' = [ncGot EXCEPT ![k] = NoResult]
            /\ ncPc' = [ncPc EXCEPT ![k] = "inspect"]
    /\ UNCHANGED <<mlabHost, inspectOut, inspectCalls, netConfig, addrReq, addrResult,
                   ncReturn, ipReturn, facadeIP, ncLocal>>
    /\ UNCHANGED restOfRace

\* NetConfig, line 234: nc, err := m.getNetConfig(), the inspect command
\* printing what it prints at that time.
NcInspect(k) ==
    /\ ncPc[k] = "inspect"
    /\ \E out \in RaceInspectOutputs :
          LET r == getNetConfig(out)
          IN  /\ inspectOut' = out
              /\ ncLocal' = [ncLocal EXCEPT ![k] =
                                [conf |-> Allocated(r.conf, inspectCalls + 1),
                                 err |-> r.err]]
    /\ inspectCalls' = inspectCalls + 1
    /\ ncPc' = [ncPc EXCEPT ![k] = "store"]
    /\ UNCHANGED <<mlabHost, netConfig, addrReq, addrResult, ncReturn, ipReturn, facadeIP,
                   ncGot, ncCalls>>
    /\ UNCHANGED restOfRace

\* NetConfig, lines 235-238: the store when err == nil, then return nc, err.
NcStore(k) ==
    /\ ncPc[k] = "store"
    /\ netConfig' = StoredConfig(netConfig, ncLocal[k])
    /\ ncGot' = [ncGot EXCEPT ![k] = [called |-> TRUE, conf |-> ncLocal[k].conf,
                                      err |-> ncLocal[k].err]]
    /\ ncPc' = [ncPc EXCEPT ![k] = "idle"]
    /\ UNCHANGED <<mlabHost, inspectOut, inspectCalls, addrReq, addrResult, ncReturn,
                   ipReturn, facadeIP, ncLocal, ncCalls>>
    /\ UNCHANGED restOfRace

NextRace ==
    \/ \E k \in Resolvers : NcCheck(k)
    \/ \E k \in Resolvers : NcInspect(k)
    \/ \E k \in Resolvers : NcStore(k)

\* One started handle whose NetConfig is called by several goroutines, no
\* configuration cached yet.
InitRace ==
    /\ InitLife
    /\ stdinKind = "nil"
    /\ bound = FALSE
    /\ AddrUnqueried
    /\ NoResolvers
    /\ NewBlockingReader
    /\ NewLineLogger(<<>>)

SpecRace == InitRace /\ [][NextRace]_vars

\* ------------------------------------------- the blockingReader by itself

restOfGate == <<lifeVars, addrVars, lineVars, raceVars>>

\* (mutant) the receive does not wait for the close
Receivable_Always == TRUE

\* <-b.c, line 331: a receive on the unbuffered channel nobody sends on
\* completes only once the channel is closed.
Receivable == gateC = "closed"

\* (mutant) doSlow runs f whatever done says
OnceNotDone_Always == TRUE

\* sync.Once.doSlow under the mutex, line 336: f is run only if done is 0.
OnceNotDone == ~gateOnce

\* blockingReader.Read is called, line 330, and reaches the receive.
ReadCall(r) ==
    /\ readPc[r] = "idle"
    /\ readCount[r] < MaxGateCalls
    /\ readCount' = [readCount EXCEPT ![r] = @ + 1]
    /\ readPc' = [readPc EXCEPT ![r] = "blocked"]
    /\ UNCHANGED <<gateC, gateCloses, gateOnce, onceM, closePc, closeCount, closeRet,
                   readRet>>
    /\ UNCHANGED restOfGate

\* lines 331-332: the receive completes and Read returns 0, io.EOF.
ReadReturn(r) ==
    /\ readPc[r] = "blocked"
    /\ Receivable
    /\ readPc' = [readPc EXCEPT ![r] = "idle"]
    /\ readRet' = [readRet EXCEPT ![r] = [called |-> TRUE, n |-> 0, err |-> "EOF"]]
    /\ UNCHANGED <<gateC, gateCloses, gateOnce, onceM, closePc, closeCount, closeRet,
                   readCount>>
    /\ UNCHANGED restOfGate

\* blockingReader.Close is called, line 335.
CloseCall(c) ==
    /\ closePc[c] = "idle"
    /\ closeCount[c] < MaxGateCalls
    /\ closeCount' = [closeCount EXCEPT ![c] = @ + 1]
    /\ closePc' = [closePc EXCEPT ![c] = "do"]
    /\ UNCHANGED <<gateC, gateCloses, gateOnce, onceM, closeRet, readPc, readCount,
                   readRet>>
    /\ UNCHANGED restOfGate

\* once.Do, line 336: the fast path returns when done is set (and Close
\* returns nil, line 337), otherwise the caller goes for the mutex.
OnceDo(c) ==
    /\ closePc[c] = "do"
    /\ IF gateOnce
       THEN /\ closePc' = [closePc EXCEPT ![c] = "idle"]
            /\ closeRet' = [closeRet EXCEPT ![c] = "nil"]
       ELSE /\ closePc' = [closePc EXCEPT ![c] = "lock"]
            /\ closeRet' = closeRet
    /\ UNCHANGED <<gateC, gateCloses, gateOnce, onceM, closeCount, readPc, readCount,
                   readRet>>
    /\ UNCHANGED restOfGate

\* once.Do, line 336: the mutex is taken.
OnceLock(c) ==
    /\ closePc[c] = "lock"
    /\ onceM = 0
    /\ onceM' = c
    /\ closePc' = [closePc EXCEPT ![c] = "locked"]
    /\ UNCHANGED <<gateC, gateCloses, gateOnce, closeCount, closeRet, readPc, readCount,
                   readRet>>
    /\ UNCHANGED restOfGate

\* once.Do, line 336: under the mutex, close(b.c) is run if done is still 0;
\* closing a closed channel panics.
OnceRun(c) ==
    /\ closePc[c] = "locked"
    /\ IF OnceNotDone
       THEN /\ gateCloses' = gateCloses + 1
            /\ gateC' = "closed"
            /\ closePc' = [closePc EXCEPT ![c] =
                              IF gateC = "closed" THEN "panicked" ELSE "ran"]
       ELSE /\ closePc' = [closePc EXCEPT ![c] = "ran"]
            /\ UNCHANGED <<gateC, gateCloses>>
    /\ UNCHANGED <<gateOnce, onceM, closeCount, closeRet, readPc, readCount, readRet>>
    /\ UNCHANGED restOfGate

\* once.Do, line 336: done is stored and the mutex released (the deferred
\* calls of doSlow); line 337: Close returns nil.
OnceUnlock(c) ==
    /\ closePc[c] = "ran"
    /\ gateOnce' = TRUE
    /\ onceM' = 0
    /\ closePc' = [closePc EXCEPT ![c] = "idle"]
    /\ closeRet' = [closeRet EXCEPT ![c] = "nil"]
    /\ UNCHANGED <<gateC, gateCloses, closeCount, readPc, readCount, readRet>>
    /\ UNCHANGED restOfGate

\* The steps of one Close call after it was issued.
CloseStep(c) == OnceDo(c) \/ OnceLock(c) \/ OnceRun(c) \/ OnceUnlock(c)

NextGate ==
    \/ \E r \in Readers : ReadCall(r)
    \/ \E r \in Readers : ReadReturn(r)
    \/ \E c \in Closers : CloseCall(c)
    \/ \E c \in Closers : OnceDo(c)
    \/ \E c \in Closers : OnceLock(c)
    \/ \E c \in Closers : OnceRun(c)
    \/ \E c \in Closers : OnceUnlock(c)

\* One blockingReader as Start makes it for a nil Stdin, used by concurrent
\* readers and closers.
InitGate ==
    /\ InitLife
    /\ stdinKind = "nil"
    /\ bound = FALSE
    /\ AddrUnqueried
    /\ NoResolvers
    /\ NewBlockingReader
    /\ NewLineLogger(<<>>)

\* The Go scheduler runs every goroutine that can take a step: a Close call
\* in progress goes on, a receive on a closed channel completes.
FairSpecGate ==
    /\ InitGate
    /\ [][NextGate]_vars
    /\ \A c \in Closers : WF_vars(CloseStep(c))
    /\ \A r \in Readers : WF_vars(ReadReturn(r))

\* ------------------------------------------------ the line logger by itself

LineChars == {"a", "\r", "\n"}
restOfLines == <<lifeVars, addrVars, gateUnitVars, raceVars>>

\* Every way of cutting s into consecutive non-empty Write calls.
RECURSIVE Chunkings(_)
Chunkings(s) ==
    IF s = <<>> THEN {<<>>}
    ELSE UNION {{<<SubSeq(s, 1, k)>> \o rest : rest \in Chunkings(SubSeq(s, k + 1, Len(s)))} :
                   k \in 1..Len(s)}

ByteSeqs == UNION {[1..k -> LineChars] : k \in 0..MaxBytes}

\* bufio.dropCR
DropCR(data) ==
    IF data # <<>> /\ data[Len(data)] = "\r" THEN SubSeq(data, 1, Len(data) - 1)
    ELSE data

NoToken == [has |-> FALSE, advance |-> 0, token |-> <<>>]

\* (mutant) the rest of the data at end of stream is dropped
ScanLines_NoFinalLine(data, atEOF) ==
    IF \E i \in 1..Len(data) : data[i] = "\n"
    THEN LET i == CHOOSE i \in 1..Len(data) :
                      data[i] = "\n" /\ \A j \in 1..(i - 1) : data[j] # "\n"
         IN  [has |-> TRUE, advance |-> i, token |-> DropCR(SubSeq(data, 1, i - 1))]
    ELSE NoToken

\* bufio.ScanLines, the split function of the Scanner made on line 359: the
\* data up to the first newline without its end-of-line marker; at end of
\* stream what is left, if anything, is a last line.
ScanLines(data, atEOF) ==
    IF atEOF /\ data = <<>> THEN NoToken
    ELSE IF \E i \in 1..Len(data) : data[i] = "\n"
    THEN LET i == CHOOSE i \in 1..Len(data) :
                      data[i] = "\n" /\ \A j \in 1..(i - 1) : data[j] # "\n"
         IN  [has |-> TRUE, advance |-> i, token |-> DropCR(SubSeq(data, 1, i - 1))]
    ELSE IF atEOF
    THEN [has |-> TRUE, advance |-> Len(data), token |-> DropCR(data)]
    ELSE NoToken

\* (mutant) the read end never sees the close of the write end
ReadSeesEOF_Never == FALSE

\* io.Pipe: a Read finds the write end closed and returns io.EOF.
ReadSeesEOF == pwClosed

\* pw.Write is called by the client with its next chunk; on a closed pipe it
\* returns io.ErrClosedPipe at once, otherwise it offers the chunk to the
\* reader and waits.
WriteCall ==
    /\ writerPc = "idle"
    /\ chunks # <<>>
    /\ chunks' = Tail(chunks)
    /\ written' = written \o Head(chunks)
    /\ IF prClosed \/ pwClosed
       THEN /\ writeErr' = TRUE
            /\ UNCHANGED <<pipeData, writerPc>>
       ELSE /\ pipeData' = Head(chunks)
            /\ writerPc' = "writing"
            /\ writeErr' = writeErr
    /\ UNCHANGED <<scanBuf, scanErr, scanToken, calls, loggerPc, prClosed, pwClosed>>
    /\ UNCHANGED restOfLines

\* pw.Write, blocked, finds the pipe closed and returns io.ErrClosedPipe.
WriteAbort ==
    /\ writerPc = "writing"
    /\ prClosed
    /\ pipeData' = <<>>
    /\ writerPc' = "idle"
    /\ writeErr' = TRUE
    /\ UNCHANGED <<chunks, written, scanBuf, scanErr, scanToken, calls, loggerPc, prClosed,
                   pwClosed>>
    /\ UNCHANGED restOfLines

\* pw.Close is called by the client: the write end is marked closed, nothing
\* is waited for.
SinkClose ==
    /\ writerPc = "idle"
    /\ writerPc' = "closed"
    /\ pwClosed' = TRUE
    /\ UNCHANGED <<chunks, written, pipeData, writeErr, scanBuf, scanErr, scanToken, calls,
                   loggerPc, prClosed>>
    /\ UNCHANGED restOfLines

\* scanner.Scan, line 360: the split function finds a line in the buffer.
ScanToken ==
    /\ loggerPc = "scan"
    /\ scanBuf # <<>> \/ scanErr # "none"
    /\ LET t == ScanLines(scanBuf, scanErr # "none")
       IN  /\ t.has
           /\ scanToken' = t.token
           /\ scanBuf' = SubSeq(scanBuf, t.advance + 1, Len(scanBuf))
    /\ loggerPc' = "callback"
    /\ UNCHANGED <<chunks, written, pipeData, writerPc, writeErr, scanErr, calls, prClosed,
                   pwClosed>>
    /\ UNCHANGED restOfLines

\* scanner.Scan: no line in the buffer; Scan goes on to read, gives up with
\* ErrTooLong when the buffer is full at its largest size, or returns false
\* after an earlier read error.
ScanNoToken ==
    /\ loggerPc = "scan"
    /\ ~ScanLines(scanBuf, scanErr # "none").has
    /\ IF scanErr # "none" THEN /\ loggerPc' = "closing"
                                /\ scanErr' = scanErr
       ELSE IF Len(scanBuf) >= MaxScanTokenSize THEN /\ loggerPc' = "closing"
                                                     /\ scanErr' = "tooLong"
       ELSE /\ loggerPc' = "read"
            /\ scanErr' = scanErr
    /\ UNCHANGED <<chunks, written, pipeData, writerPc, writeErr, scanBuf, scanToken, calls,
                   prClosed, pwClosed>>
    /\ UNCHANGED restOfLines

\* scanner.Scan reads from pr: it gets some of the bytes of the Write in
\* progress, as many as fit the free part of its buffer at most; the Write
\* returns once all its bytes were taken.
ReadData ==
    /\ loggerPc = "read"
    /\ pipeData # <<>>
    /\ ~ReadSeesEOF
    /\ \E k \in 1..Len(pipeData) :
          /\ Len(scanBuf) + k <= MaxScanTokenSize
          /\ scanBuf' = scanBuf \o SubSeq(pipeData, 1, k)
          /\ pipeData' = SubSeq(pipeData, k + 1, Len(pipeData))
          /\ writerPc' = IF k = Len(pipeData) THEN "idle" ELSE writerPc
    /\ loggerPc' = "scan"
    /\ UNCHANGED <<chunks, written, writeErr, scanErr, scanToken, calls, prClosed, pwClosed>>
    /\ UNCHANGED restOfLines

\* scanner.Scan reads from pr after pw was closed: io.EOF.
ReadEOF ==
    /\ loggerPc = "read"
    /\ ReadSeesEOF
    /\ scanErr' = "EOF"
    /\ loggerPc' = "scan"
    /\ UNCHANGED <<chunks, written, pipeData, writerPc, writeErr, scanBuf, scanToken, calls,
                   prClosed, pwClosed>>
    /\ UNCHANGED restOfLines

\* f(scanner.Text()), line 361, and f returns.
Callback ==
    /\ loggerPc = "callback"
    /\ calls' = Append(calls, scanToken)
    /\ loggerPc' = "scan"
    /\ UNCHANGED <<chunks, written, pipeData, writerPc, writeErr, scanBuf, scanErr, scanToken,
                   prClosed, pwClosed>>
    /\ UNCHANGED restOfLines

\* pr.Close(); pw.Close(), lines 363-364, and the goroutine ends.
LoggerClose ==
    /\ loggerPc = "closing"
    /\ prClosed' = TRUE
    /\ pwClosed' = TRUE
    /\ loggerPc' = "done"
    /\ UNCHANGED <<chunks, written, pipeData, writerPc, writeErr, scanBuf, scanErr, scanToken,
                   calls>>
    /\ UNCHANGED restOfLines

LoggerStep == ScanToken \/ ScanNoToken \/ ReadData \/ ReadEOF \/ Callback \/ LoggerClose

NextLines ==
    \/ WriteCall
    \/ WriteAbort
    \/ SinkClose
    \/ ScanToken
    \/ ScanNoToken
    \/ ReadData
    \/ ReadEOF
    \/ Callback
    \/ LoggerClose

\* One line logger and its client, which writes some byte sequence cut into
\* Write calls in some way and may close the sink between two calls.
InitLines ==
    /\ InitLife
    /\ stdinKind = "nil"
    /\ bound = FALSE
    /\ AddrUnqueried
    /\ NoResolvers
    /\ NewBlockingReader
    /\ \E s \in ByteSeqs : \E todo \in Chunkings(s) : NewLineLogger(todo)

SpecLines == InitLines /\ [][NextLines]_vars

\* The goroutine of NewLineLogger is scheduled, f returns, and a Write whose
\* pipe was closed returns.
FairSpecLines ==
    /\ InitLines
    /\ [][NextLines]_vars
    /\ WF_vars(LoggerStep)
    /\ WF_vars(WriteAbort)

\* ---------------------------------------------------------------- claims

InClose == pc \in {"closeKill", "closeRelease"}

\* C1: Close, called in any state the handle can reach (only constructed, Start
\* failed at the pipe, at the spawn, by early exit or at the id read, Start
\* succeeded), completes without panic.
C1_CloseNeverPanics == pc # "closePanicked"

\* C2: when the process exited during Start before the readiness timer fired,
\* Start does not get past the select by its timer branch: it neither returns
\* success nor goes on to read the id file.
C2_EarlyExitFailsStart ==
    startResult \in {"ok", "readErr"} => ~exitedBeforeTimer

\* C3: Start returns success only with a non-empty identifier read from the
\* id file.
C3_SuccessHasIdentifier == startResult = "ok" => id # <<>>

\* C4: a Close call after the first one issues no termination request.
C4_LaterCloseDoesNotKill ==
    \A i \in 1..Len(killLog) : killLog[i].close = 1

\* C5: once a Close call has returned, the id file does not exist; and every
\* Close call that got to the removal returned, whether or not the file was
\* still there.
C5_FileGoneAfterClose ==
    /\ closeReturns > 0 => idfile = Absent
    /\ pc = "idle" => closeReturns = closes

C5_Witness ==
    /\ closeReturns = 2
    /\ idWritten
    /\ idfile = Absent

\* C6: when a Close call ends, every gate registered by the Start calls before
\* it has been released, and no gate is ever released twice.
C6_CloseReleasesEveryGate ==
    [][ /\ (InClose /\ ~InClose') =>
              \A g \in GateSet(toBeClosed) : brClosed'[g] = 1
        /\ \A g \in Gates : brClosed'[g] <= 1 ]_vars

\* C7: closechan is closed at most once, and only when the process has ended
\* or the spawn failed: never while the spawned process is running.
C7_SignalOnceAfterExit ==
    /\ chanCloses <= 1
    /\ (closechan = "closed") = (chanCloses = 1)
    /\ closechan = "closed" =>
          \/ proc = "exited"
          \/ (proc = "none" /\ cmdStdout)    \* cmd.Start failed

C7_Witness ==
    /\ closechan = "closed"
    /\ proc = "exited"
    /\ starts = 2
    /\ closes = 2

\* C8: no Wait returns and no IsClosed yields true before closechan is closed;
\* IsClosed yields exactly whether it is closed, and once it yielded true it
\* never yields false again; every Wait caller blocked while closechan is
\* closed returns, however many there are.
C8_Observability ==
    /\ [](\A w \in Waiters : waitpc[w] = "returned" => closechan = "closed")
    /\ [][lastIsClosed' # lastIsClosed =>
             lastIsClosed' = (IF closechan = "closed" THEN "true" ELSE "false")]_vars
    /\ [][lastIsClosed = "true" => lastIsClosed' = "true"]_vars
    /\ \A w \in Waiters :
          (waitpc[w] = "blocked" /\ closechan = "closed") ~> (waitpc[w] = "returned")

C8_Witness ==
    /\ closechan = "closed"
    /\ lastIsClosed = "true"
    /\ \A w \in Waiters : waitpc[w] = "returned"

\* The last GetAddressPort call got a config from NetConfig.
Resolved == addrResult # NoResult /\ netConfig # NilConfig

\* The last call returned the lab's own address and the port as asked for.
RoutedAnswer ==
    /\ addrResult.err = "none"
    /\ addrResult.ip \in IPChoices(netConfig)
    /\ addrResult.port = addrReq

\* The last call returned the loopback address with the mapped port, or the
\* error for a port without mapping.
ForwardedAnswer ==
    \/ /\ addrResult.err = "none"
       /\ addrResult.ip = loopbackAddress
       /\ addrReq \in DOMAIN netConfig.ExposedPorts
       /\ addrResult.port = netConfig.ExposedPorts[addrReq]
    \/ /\ addrResult.err = "could not find port mapping"
       /\ addrReq \notin DOMAIN netConfig.ExposedPorts

BeginsWithUnix ==
    /\ Len(mlabHost) >= 5
    /\ <<mlabHost[1], mlabHost[2], mlabHost[3], mlabHost[4], mlabHost[5]>>
           = <<"u", "n", "i", "x", ":">>

\* C9 as stated: with a primary address present, the answer is the routed one
\* exactly when MLAB_HOST does not begin with "unix:", the forwarded one when
\* it does.
C9_RoutedUnlessUnix ==
    (Resolved /\ IPChoices(netConfig) # {NoIP}) =>
        /\ ~BeginsWithUnix => RoutedAnswer
        /\ BeginsWithUnix => ForwardedAnswer

\* C9 as amended: with a primary address present, the answer is the routed one
\* exactly when MLAB_HOST begins with "unix:", and the forwarded one when it
\* does not (an unset MLAB_HOST included).
C9_RoutedIffUnix ==
    (Resolved /\ IPChoices(netConfig) # {NoIP}) =>
        /\ BeginsWithUnix => (RoutedAnswer /\ ~ForwardedAnswer)
        /\ ~BeginsWithUnix => (ForwardedAnswer /\ ~RoutedAnswer)

C9_Witness ==
    /\ Resolved
    /\ IPChoices(netConfig) # {NoIP}
    /\ mlabHost = <<"u", "n", "i", "x", ":", "/", "s">>
    /\ addrReq = 5432
    /\ addrReq \in DOMAIN netConfig.ExposedPorts
    /\ addrResult.ip = <<10, 0, 0, 3>>
    /\ addrResult.port = 5432

\* C10: for every config, mode and internal port: routed mode (NeedForwarding
\* false) with a primary address gives that address and the same port;
\* otherwise a mapped port gives 127.0.0.1 and the mapped port; otherwise the
\* call fails naming the port, with no address and port 0.
C10_GetAddressPort ==
    Resolved =>
        IF ~NeedForwarding /\ DOMAIN netConfig.Interfaces # {}
        THEN /\ addrResult.err = "none"
             /\ addrResult.port = addrReq
             /\ IF "eth0" \in DOMAIN netConfig.Interfaces
                THEN addrResult.ip = netConfig.Interfaces["eth0"]
                ELSE \E n \in DOMAIN netConfig.Interfaces :
                        addrResult.ip = netConfig.Interfaces[n]
        ELSE IF addrReq \in DOMAIN netConfig.ExposedPorts
        THEN /\ addrResult.err = "none"
             /\ addrResult.ip = <<127, 0, 0, 1>>
             /\ addrResult.port = netConfig.ExposedPorts[addrReq]
        ELSE /\ addrResult.err = "could not find port mapping"
             /\ addrResult.errPort = addrReq
             /\ addrResult.ip = NoIP
             /\ addrResult.port = 0

\* Routed mode without any interface falls back to the port mapping.
C10_Witness ==
    /\ Resolved
    /\ ~NeedForwarding
    /\ DOMAIN netConfig.Interfaces = {}
    /\ addrReq = 1000
    /\ addrResult.ip = <<127, 0, 0, 1>>
    /\ addrResult.port = 55001

\* C11: once the handle holds a cached config, every further NetConfig call
\* (by itself, through GetAddressPort, through the facade's IP) returns that
\* same config with no error, leaves the cache as it is and does not run
\* the inspect command again.
C11_CachedResultReused ==
    [][netConfig # NilConfig =>
          /\ inspectCalls' = inspectCalls
          /\ netConfig' = netConfig
          /\ ncReturn' = [called |-> TRUE, conf |-> netConfig, err |-> "none"]]_vars

\* One inspect run served a GetAddressPort call and a DockerLab.IP call.
C11_Witness ==
    /\ netConfig # NilConfig
    /\ inspectCalls = 1
    /\ addrResult.called
    /\ facadeIP.called
    /\ ncReturn = [called |-> TRUE, conf |-> netConfig, err |-> "none"]

\* A Close call on the gate has been issued.
ReleaseIssued == \E c \in Closers : closeCount[c] > 0

\* C12: the gate never returns data.  No Read has returned while no Close
\* call was ever issued; every Read that returned gave 0 bytes and io.EOF;
\* and a Read that is blocked when a Close call has been issued, or is issued
\* after one, eventually returns.
C12_GateReads ==
    /\ [](\A r \in Readers :
            readRet[r].called =>
                /\ ReleaseIssued
                /\ readRet[r] = [called |-> TRUE, n |-> 0, err |-> "EOF"])
    /\ [](\A r \in Readers : (readPc[r] = "blocked" /\ ~ReleaseIssued) => gateC = "open")
    /\ \A r \in Readers :
          (readPc[r] = "blocked" /\ ReleaseIssued) ~> (readPc[r] = "idle")

\* The only Read of one reader and the second Read of the other have
\* returned, the channel having been closed once.
C12_Witness ==
    /\ readRet[1].called
    /\ readCount[1] = 1
    /\ readRet[2].called
    /\ readCount[2] = 2
    /\ gateCloses = 1

\* C13: whatever the interleaving of the Close calls with each other and
\* with the Reads, close(b.c) is executed at most once, and exactly once as
\* soon as some Close call has returned; no Close call panics; every Close
\* call returns, and returns nil.
C13_ReleaseIdempotent ==
    /\ [](/\ gateCloses <= 1
          /\ \A c \in Closers : closePc[c] # "panicked"
          /\ \A c \in Closers : closeRet[c] \in {"none", "nil"}
          /\ \A c \in Closers : closeRet[c] = "nil" => gateCloses = 1 /\ gateC = "closed")
    /\ \A c \in Closers : (closePc[c] # "idle") ~> (closePc[c] = "idle" /\ closeRet[c] = "nil")

\* Both closers have issued and finished every one of their calls, and a
\* Read has been let through.
C13_Witness ==
    /\ \A c \in Closers : closeCount[c] = MaxGateCalls /\ closePc[c] = "idle"
    /\ \A c \in Closers : closeRet[c] = "nil"
    /\ gateCloses = 1
    /\ readRet[1].called

\* t is s without its leading and trailing white space.
IsTrimOf(t, s) ==
    \E i \in 0..Len(s), j \in 0..Len(s) :
        /\ i + j <= Len(s)
        /\ t = SubSeq(s, i + 1, Len(s) - j)
        /\ \A k \in 1..i : s[k] \in SpaceChars
        /\ \A k \in (Len(s) - j + 1)..Len(s) : s[k] \in SpaceChars
        /\ t # <<>> => (t[1] \notin SpaceChars /\ t[Len(t)] \notin SpaceChars)

\* C14: the identifier is empty on the new handle and is changed by nothing
\* but a Start that returns success, so it is empty until then and a failed
\* Start leaves it as it was; a Start that returns success has passed the
\* select by its fired timer, found the id file and set the identifier to
\* the file's content, as it was then, without leading and trailing white
\* space.
C14_IdentifierFromFile ==
    /\ id = <<>>
    /\ [][/\ id' # id => (pc = "select" /\ pc' = "idle" /\ startResult' = "ok")
          /\ (pc = "select" /\ pc' = "idle" /\ startResult' = "ok") =>
                 /\ timer = "fired"
                 /\ idfile # Absent
                 /\ IsTrimOf(id', idfile)]_vars

\* Start succeeded on a file holding the identifier and a newline.
C14_Witness ==
    /\ startResult = "ok"
    /\ idfile = <<"a", "\n">>
    /\ id = <<"a">>

IsPrefix(a, b) == Len(a) <= Len(b) /\ a = SubSeq(b, 1, Len(a))

\* The texts of the newline-terminated lines of s, in order, each without its
\* end-of-line marker (the newline and a carriage return before it).
RECURSIVE TerminatedLines(_)
TerminatedLines(s) ==
    IF \A i \in 1..Len(s) : s[i] # "\n" THEN <<>>
    ELSE LET i == CHOOSE i \in 1..Len(s) :
                      s[i] = "\n" /\ \A j \in 1..(i - 1) : s[j] # "\n"
         IN  <<DropCR(SubSeq(s, 1, i - 1))>> \o TerminatedLines(SubSeq(s, i + 1, Len(s)))

\* The bytes of s after its last newline.
RECURSIVE TrailingPartial(_)
TrailingPartial(s) ==
    IF \A i \in 1..Len(s) : s[i] # "\n" THEN s
    ELSE TrailingPartial(Tail(s))

\* Every Write call made has returned and the goroutine waits for input or
\* has ended.
LinesQuiescent ==
    /\ writerPc # "writing"
    /\ pipeData = <<>>
    /\ loggerPc \in {"read", "done"}

\* C15: whatever the byte sequence and its cut into Write calls, while the
\* sink is open the callbacks made are the first terminated lines of the
\* bytes written, in order and once each, and when the writes have returned
\* and the goroutine has nothing left to do every terminated line written
\* has had its callback.
C15_OneCallPerLine ==
    /\ writerPc # "closed" => IsPrefix(calls, TerminatedLines(written))
    /\ LinesQuiescent => IsPrefix(TerminatedLines(written), calls)

\* C16 as stated: at no time, before or after the close of the sink, does a
\* callback carry bytes written after the last newline: the callbacks made
\* are always among the terminated lines of the bytes written.
C16_PartialLineDiscarded == IsPrefix(calls, TerminatedLines(written))

\* C16 as the code has it: while the client has not closed the sink, and in
\* any case once the scanner gave up on a too long line, the callbacks made
\* are among the terminated lines of the bytes written; when the client has
\* closed the sink and the goroutine has ended on end of stream, the bytes
\* after the last newline, if there are any, have been passed to the
\* callback as one more line after all the terminated ones.
C16_PartialLineAtClose ==
    /\ (writerPc # "closed" \/ scanErr = "tooLong") =>
           IsPrefix(calls, TerminatedLines(written))
    /\ (writerPc = "closed" /\ loggerPc = "done" /\ scanErr = "EOF") =>
           calls = TerminatedLines(written) \o
                   (IF TrailingPartial(written) = <<>> THEN <<>>
                    ELSE <<DropCR(TrailingPartial(written))>>)

\* "a\na" was written and the sink closed: two callbacks.
C16_Witness ==
    /\ writerPc = "closed"
    /\ loggerPc = "done"
    /\ written = <<"a", "\n", "a">>
    /\ calls = << <<"a">>, <<"a">> >>

\* C17: the client's Close of the sink waits for nothing, whatever the
\* goroutine is doing and whether or not anything was written; and once the
\* client has closed the sink the goroutine ends with both pipe ends closed.
C17_CloseTerminates ==
    /\ [](writerPc = "idle" => ENABLED SinkClose)
    /\ (writerPc = "closed") ~> (loggerPc = "done" /\ prClosed /\ pwClosed)

\* The sink was closed with nothing ever written and the goroutine has ended.
C17_Witness ==
    /\ writerPc = "closed"
    /\ written = <<>>
    /\ loggerPc = "done"
    /\ prClosed
    /\ pwClosed

\* C18: conf.IP() returns no address exactly when conf is nil or holds no
\* interface; the address of eth0 when conf has an eth0; and otherwise the
\* address of one of the interfaces conf holds.
C18_PrimaryAddress ==
    ipReturn.called =>
        LET n == ipReturn.conf
            ip == ipReturn.ip
        IN  IF n = NilConfig THEN ip = NoIP
            ELSE IF DOMAIN n.Interfaces = {} THEN ip = NoIP
            ELSE /\ ip # NoIP
                 /\ "eth0" \in DOMAIN n.Interfaces => ip = n.Interfaces["eth0"]
                 /\ \E k \in DOMAIN n.Interfaces : ip = n.Interfaces[k]

\* IP() was called on a config with eth0 and an eth1 of another address.
C18_Witness ==
    /\ ipReturn.called
    /\ ipReturn.conf # NilConfig
    /\ DOMAIN ipReturn.conf.Interfaces = {"eth0", "eth1"}
    /\ ipReturn.conf.Interfaces["eth1"] # ipReturn.conf.Interfaces["eth0"]
    /\ ipReturn.ip = ipReturn.conf.Interfaces["eth0"]

\* The last Start call failed with an error (it did not panic on its way).
StartFailed == startResult \notin {"none", "ok"} /\ pc # "startPanicked"

\* The last NetConfig call, made by itself or by GetAddressPort or by the
\* facade's IP, failed.
ResolutionFailed == ncReturn.called /\ ncReturn.err # "none"

\* C19 as stated: on a bound handle a failed Start has ended the test by
\* Fatal and so has a failed resolution; on an unbound handle neither has,
\* the error being what the call returned.
C19_FailuresEndTheTest ==
    /\ StartFailed => (bound <=> fatal = "Start")
    /\ ResolutionFailed => (bound <=> fatal \in {"Start", "NetConfig"})

\* C19 as the code has it: Fatal is called by nothing but a failing Start
\* on a bound handle, which always calls it; a failed Start on an unbound
\* handle and a failed resolution on any handle hand their error back and
\* the test goes on.
C19_OnlyStartEndsTheTest ==
    /\ [](/\ StartFailed => (bound <=> fatal = "Start")
          /\ fatal \in {"none", "Start"}
          /\ fatal = "Start" => (bound /\ StartFailed))
    /\ [][/\ fatal' # fatal => (startResult' # "ok" /\ ncReturn' = ncReturn)
          /\ (ncReturn' # ncReturn \/ addrResult' # addrResult \/ facadeIP' # facadeIP)
                 => fatal' = fatal]_vars

\* On a bound handle Start succeeded and then a resolution failed: the test
\* goes on.
C19_Witness ==
    /\ bound
    /\ startResult = "ok"
    /\ ResolutionFailed
    /\ facadeIP.called
    /\ addrResult.called
    /\ fatal = "none"

\* C20 as stated: Start enters the select only from a copy that saw the end
\* of the process's output, and reads the id file only from the select;
\* when it returns success every byte written to the output has been
\* delivered to the sink; and while the output stays open Start does not
\* leave the copy.
C20_StartWaitsForEndOfOutput ==
    [][/\ (pc # "select" /\ pc' = "select") => (pc = "copy" /\ ~outOpen /\ outPipe = 0)
       /\ pc # "select" =>
             /\ id' = id
             /\ startResult' # startResult => startResult' \notin {"ok", "readErr"}
       /\ (pc = "select" /\ pc' = "idle" /\ startResult' = "ok")
             => (outDelivered' = outWritten' /\ ~outOpen')
       /\ (pc = "copy" /\ outOpen') => pc' = "copy"]_vars

\* C20 as the code has it: the same, except that with the output still open
\* Start does leave the copy when the copy fails, and then returns that
\* error.
C20_StartWaitsUnlessCopyFails ==
    [][/\ (pc # "select" /\ pc' = "select") => (pc = "copy" /\ ~outOpen /\ outPipe = 0)
       /\ pc # "select" =>
             /\ id' = id
             /\ startResult' # startResult => startResult' \notin {"ok", "readErr"}
       /\ (pc = "select" /\ pc' = "idle" /\ startResult' = "ok")
             => (outDelivered' = outWritten' /\ ~outOpen')
       /\ (pc = "copy" /\ outOpen')
             => (pc' = "copy" \/ (pc' = "idle" /\ startResult' = "copyErr"))]_vars

\* Start returned success after the process wrote all it could, in two
\* pieces, and all of it reached the sink.
C20_Witness ==
    /\ startResult = "ok"
    /\ pc = "idle"
    /\ outWritten = MaxOut
    /\ outDelivered = MaxOut

\* What m.netConfig points to, the object's identity left out.
Content(conf) ==
    IF conf = NilConfig THEN NilConfig
    ELSE [Interfaces |-> conf.Interfaces, ExposedPorts |-> conf.ExposedPorts]

\* C21: once m.netConfig holds a config no step changes it, concurrent first
\* NetConfig calls included, and the calls that returned a config all
\* returned the same one.
C21_CachedConfigNeverReplaced ==
    /\ [][netConfig # NilConfig => netConfig' = netConfig]_vars
    /\ [](\A j, k \in Resolvers :
            (/\ ncGot[j].called
             /\ ncGot[k].called
             /\ ncGot[j].err = "none"
             /\ ncGot[k].err = "none") => Content(ncGot[j].conf) = Content(ncGot[k].conf))

\* C22: Close calls Kill exactly when closechan is not closed: every Kill was
\* called while closechan was still open, no Close is about to call Kill on
\* a handle whose process was never spawned, and no Close gets past the Kill
\* decision leaving the process running.
C22_KillExactlyWhenNotFired ==
    /\ \A i \in 1..Len(killLog) : ~killLog[i].fired
    /\ ~(pc = "closeKill" /\ proc = "none")
    /\ pc = "closeRelease" => proc # "running"

\* Close has been called on a handle whose process was spawned.
CloseCalledOnSpawned == closes > 0 /\ proc # "none"

\* C23: once Close has been called on a handle whose process was spawned,
\* closechan is eventually closed, so that IsClosed is true from then on and
\* every caller blocked in Wait returns, whatever Stdin the process was given.
C23_ShutdownCompletes ==
    /\ CloseCalledOnSpawned ~> IsClosed
    /\ \A w \in Waiters :
          (CloseCalledOnSpawned /\ waitpc[w] = "blocked") ~> (waitpc[w] = "returned")

\* The inspect command failed, one of the two JSON documents it printed is
\* malformed, or an interface's address is not an IP literal.
InspectUnusable(out) ==
    \/ out.kind \in {"cmdErr", "badIfcs", "badPorts"}
    \/ \E i \in 1..Len(out.ifcs) :
          \E j \in 1..Len(out.ifcs[i].address) : out.ifcs[i].address[j] \notin 0..255

\* C24: a resolution that fails returns an error and a nil config, leaves
\* the cache empty and counts as one inspect run, the call after it running
\* the inspect command again in the same way; a config is cached only from
\* an output that was parsed whole.
C24_FailedResolutionNotCached ==
    /\ [][(netConfig = NilConfig /\ InspectUnusable(inspectOut)) =>
              /\ ncReturn'.called
              /\ ncReturn'.conf = NilConfig
              /\ ncReturn'.err # "none"
              /\ netConfig' = NilConfig
              /\ inspectCalls' = inspectCalls + 1]_vars
    /\ [](netConfig # NilConfig =>
              /\ ~InspectUnusable(inspectOut)
              /\ DOMAIN netConfig.ExposedPorts =
                     {inspectOut.ports[i].internal : i \in 1..Len(inspectOut.ports)}
              /\ DOMAIN netConfig.Interfaces =
                     {inspectOut.ifcs[i].ifname : i \in 1..Len(inspectOut.ifcs)})

\* Two calls in a row failed on an output whose first document was parsed
\* and whose second is malformed, each having run the inspect command.
C24_Witness ==
    /\ inspectOut.kind = "badPorts"
    /\ Len(inspectOut.ifcs) > 0
    /\ ~InspectUnusable([inspectOut EXCEPT !.kind = "ok"])
    /\ inspectCalls = 2
    /\ netConfig = NilConfig
    /\ ncReturn.called
    /\ ncReturn.conf = NilConfig
    /\ ncReturn.err # "none"

==========================================================================
